---- MODULE Spec2Model ----
(***************************************************************************)
(* A model of the catalog consolidation and track resolution core of the   *)
(* danish-radio-explorer scripts:                                          *)
(*   - the cumulative catalog merge                                        *)
(*       Scripts/radio_playlist_consolidator.py _update_cumulative_playlist*)
(*   - the fuzzy resolver     Scripts/webapp/playlist_lib.py               *)
(*                            match_playlist_rows                          *)
(*   - the playlist exporters Scripts/webapp/playlist_lib.py               *)
(*                            export_vdjfolder_mode / export_m3u8_mode     *)
(*   - the identity normalizer Scripts/webapp/playlist_lib.py              *)
(*                            normalize_text / normalize_key               *)
(*   - the library index      Scripts/webapp/playlist_lib.py scan_library  *)
(*   - the run lock           Scripts/webapp/app.py run_orchestrator,      *)
(*                            pages/1_DJ_Studio.py run_orchestrator_dj     *)
(*   - the playlist reader    Scripts/webapp/playlist_lib.py               *)
(*                            read_playlist_csv                            *)
(*                                                                         *)
(* Text is a sequence of one-character strings, so that strip, lower,      *)
(* split and XML escaping are computed, not assumed.  A pandas missing     *)
(* value (NaN) is a value of its own, distinct from every text.            *)
(***************************************************************************)
EXTENDS Integers, Sequences, FiniteSets, TLC

VARIABLES
    stable,      \* the durable catalog file All_Radio_Cumulative_<stations>.csv
    snapshot,    \* the dated snapshot files, one per run date
    merges,      \* number of _update_cumulative_playlist calls so far
    outcome,     \* how the last call ended: "none", "ok" or "raised"
    library,     \* the library index handed to match_playlist_rows
    query,       \* the last call of match_playlist_rows: row, threshold, scores
    result,      \* what that call returned for the row
    vdj,         \* the .vdjfolder files of the MyLists directory, by list name
    m3u,         \* the .m3u8 files of the output directory, by list name
    exports,     \* number of export calls so far
    lastExport,  \* the last export call: format, mode, names and matches
    norm,        \* the last call of normalize_key and what it returned
    lock,        \* whether the lock file Logs/.update.lock exists
    session,     \* where each browser session stands in starting a run
    disk,        \* the audio files under the library root, by path
    index,       \* the library index: tracks, by_key and mtime
    parsed,      \* the paths the last scan_library handed to _extract_tags
    scanned,     \* how the last scan_library ended: "none", "ok" or "raised"
    scans,       \* the number of scans so far, modulo 2: a scan that finds
                 \* nothing to do is a step all the same
    read         \* the last call of read_playlist_csv: the file and its rows

mergeVars  == <<stable, snapshot, merges, outcome>>
matchVars  == <<library, query, result>>
exportVars == <<vdj, m3u, exports, lastExport>>
normVars   == <<norm>>
lockVars   == <<lock, session>>
scanVars   == <<disk, index, parsed, scanned, scans>>
readVars   == <<read>>
vars       == <<stable, snapshot, merges, outcome, library, query, result,
                vdj, m3u, exports, lastExport, norm, lock, session,
                disk, index, parsed, scanned, scans, read>>

\* What the steps of one component leave alone: the state of the others.
exceptMerge  == <<matchVars, exportVars, normVars, lockVars, scanVars, readVars>>
exceptMatch  == <<mergeVars, exportVars, normVars, lockVars, scanVars, readVars>>
exceptExport == <<mergeVars, matchVars, normVars, lockVars, scanVars, readVars>>
exceptNorm   == <<mergeVars, matchVars, exportVars, lockVars, scanVars, readVars>>
exceptLock   == <<mergeVars, matchVars, exportVars, normVars, scanVars, readVars>>
exceptScan   == <<mergeVars, matchVars, exportVars, normVars, lockVars, readVars>>
exceptRead   == <<mergeVars, matchVars, exportVars, normVars, lockVars, scanVars>>

(***************************************************************************)
(* Text                                                                    *)
(***************************************************************************)

\* Characters in code point order, as Python compares them.
CharOrder == <<" ", "-", "A", "B", "a", "b", "f", "n", "t">>

RankOf ==
    [c \in {CharOrder[i] : i \in 1..Len(CharOrder)} |->
        CHOOSE i \in 1..Len(CharOrder) : CharOrder[i] = c]

CharRank(c) == RankOf[c]

\* str < str in Python: lexicographic by code point, a proper prefix first.
RECURSIVE TextLess(_, _)
TextLess(s, t) ==
    IF t = <<>> THEN FALSE
    ELSE IF s = <<>> THEN TRUE
    ELSE IF Head(s) = Head(t) THEN TextLess(Tail(s), Tail(t))
    ELSE CharRank(Head(s)) < CharRank(Head(t))

\* str.lower()
UpperCase ==
    <<"A", "B", "C", "D", "E", "F", "G", "H", "I", "J", "K", "L", "M",
      "N", "O", "P", "Q", "R", "S", "T", "U", "V", "W", "X", "Y", "Z">>

LowerCase ==
    <<"a", "b", "c", "d", "e", "f", "g", "h", "i", "j", "k", "l", "m",
      "n", "o", "p", "q", "r", "s", "t", "u", "v", "w", "x", "y", "z">>

LowerOf ==
    [c \in {UpperCase[i] : i \in 1..Len(UpperCase)} |->
        LowerCase[CHOOSE i \in 1..Len(UpperCase) : UpperCase[i] = c]]

LowerChar(c) == IF c \in DOMAIN LowerOf THEN LowerOf[c] ELSE c

Lower(s) == [i \in 1..Len(s) |-> LowerChar(s[i])]

\* str.strip(): leading and trailing white space removed
RECURSIVE LStrip(_)
LStrip(s) == IF s # <<>> /\ Head(s) = " " THEN LStrip(Tail(s)) ELSE s

RECURSIVE RStrip(_)
RStrip(s) ==
    IF s # <<>> /\ s[Len(s)] = " " THEN RStrip(SubSeq(s, 1, Len(s) - 1)) ELSE s

Strip(s) == RStrip(LStrip(s))

\* Whether sep occurs in s at position i.
OccursAt(s, sep, i) ==
    /\ i + Len(sep) - 1 <= Len(s)
    /\ SubSeq(s, i, i + Len(sep) - 1) = sep

\* s.split(sep, 1): <<s>> when sep does not occur, else the text before and
\* the text after its first occurrence.
Split1(s, sep) ==
    IF \E i \in 1..Len(s) : OccursAt(s, sep, i)
    THEN LET i == CHOOSE j \in 1..Len(s) :
                      /\ OccursAt(s, sep, j)
                      /\ \A k \in 1..(j - 1) : ~OccursAt(s, sep, k)
         IN  <<SubSeq(s, 1, i - 1), SubSeq(s, i + Len(sep), Len(s))>>
    ELSE <<s>>

\* pandas' missing value in a text column, and what str() makes of it.
NaN == <<"NaN">>

NanText == <<"n", "a", "n">>

(***************************************************************************)
(* The identity normalizer: playlist_lib.py normalize_text, normalize_key  *)
(***************************************************************************)

Digits == {"0", "1", "2", "3", "4", "5", "6", "7", "8", "9"}

\* \w of the regular expressions: letters (U+00E2 is one), digits and the
\* underscore.
IsWordChar(c) ==
    \/ \E i \in 1..Len(LowerCase) : c = LowerCase[i] \/ c = UpperCase[i]
    \/ c \in Digits
    \/ c \in {"_", "U+00E2"}

WordAt(s, p) == p >= 1 /\ p <= Len(s) /\ IsWordChar(s[p])

\* \b just before position p: a word character on exactly one side.
Boundary(s, p) == WordAt(s, p - 1) # WordAt(s, p)

\* The length of the run of white space, or of digits, that starts at p.
RECURSIVE SpaceRun(_, _)
SpaceRun(s, p) == IF p <= Len(s) /\ s[p] = " " THEN 1 + SpaceRun(s, p + 1) ELSE 0

RECURSIVE DigitRun(_, _)
DigitRun(s, p) ==
    IF p <= Len(s) /\ s[p] \in Digits THEN 1 + DigitRun(s, p + 1) ELSE 0

Contains(s, w) == \E i \in 1..Len(s) : OccursAt(s, w, i)

\* The first length of a sequence of lengths that is not 0, a failed try.
RECURSIVE FirstLen(_)
FirstLen(lens) ==
    IF lens = <<>> THEN 0
    ELSE IF Head(lens) > 0 THEN Head(lens) ELSE FirstLen(Tail(lens))

\* re.sub and str.replace: the text is scanned from the left; where a match
\* of length lens[i] > 0 starts, rep is put and the scan goes on behind it.
RECURSIVE SubFrom(_, _, _, _)
SubFrom(s, lens, rep, i) ==
    IF i > Len(s) THEN <<>>
    ELSE IF lens[i] > 0 THEN rep \o SubFrom(s, lens, rep, i + lens[i])
    ELSE <<s[i]>> \o SubFrom(s, lens, rep, i + 1)

SubAll(s, lens, rep) == SubFrom(s, lens, rep, 1)

\* \b(feat|ft|featuring)\.?\b : the alternatives in order, each first with
\* the period and then without it.
FeatWords == <<<<"f", "e", "a", "t">>,
               <<"f", "t">>,
               <<"f", "e", "a", "t", "u", "r", "i", "n", "g">>>>

FeatLen(s, i) ==
    LET try(w, dot) ==
            IF /\ OccursAt(s, w, i)
               /\ (dot = 1 => i + Len(w) <= Len(s) /\ s[i + Len(w)] = ".")
               /\ Boundary(s, i + Len(w) + dot)
            THEN Len(w) + dot ELSE 0
    IN  IF ~Boundary(s, i) THEN 0
        ELSE FirstLen(<<try(FeatWords[1], 1), try(FeatWords[1], 0),
                        try(FeatWords[2], 1), try(FeatWords[2], 0),
                        try(FeatWords[3], 1), try(FeatWords[3], 0)>>)

\* (...), [...] and {...} whose content, free of the closing bracket, holds
\* one of the qualifier words.
QualifierWords == {<<"r", "e", "m", "i", "x">>,
                   <<"e", "d", "i", "t">>,
                   <<"v", "e", "r", "s", "i", "o", "n">>,
                   <<"r", "e", "m", "a", "s", "t", "e", "r">>,
                   <<"l", "i", "v", "e">>,
                   <<"e", "x", "t", "e", "n", "d", "e", "d">>,
                   <<"m", "i", "x">>}

BracketLen(s, i, open, close) ==
    IF s[i] = open /\ \E j \in (i + 1)..Len(s) : s[j] = close
    THEN LET j == CHOOSE k \in (i + 1)..Len(s) :
                      /\ s[k] = close
                      /\ \A m \in (i + 1)..(k - 1) : s[m] # close
         IN  IF \E w \in QualifierWords : Contains(SubSeq(s, i + 1, j - 1), w)
             THEN j - i + 1 ELSE 0
    ELSE 0

\* \b(?:radio|club|extended|clean|dirty)\s+edit\b
EditKinds == {<<"r", "a", "d", "i", "o">>,
              <<"c", "l", "u", "b">>,
              <<"e", "x", "t", "e", "n", "d", "e", "d">>,
              <<"c", "l", "e", "a", "n">>,
              <<"d", "i", "r", "t", "y">>}

EditWord == <<"e", "d", "i", "t">>

EditLen(s, i) ==
    IF Boundary(s, i) /\ \E w \in EditKinds : OccursAt(s, w, i)
    THEN LET w  == CHOOSE x \in EditKinds : OccursAt(s, x, i)
             p  == i + Len(w)
             ws == SpaceRun(s, p)
         IN  IF ws > 0 /\ OccursAt(s, EditWord, p + ws)
                /\ Boundary(s, p + ws + Len(EditWord))
             THEN Len(w) + ws + Len(EditWord) ELSE 0
    ELSE 0

\* \bremaster(?:ed)?\b(?:\s*\d{2,4})?
RemasterWord == <<"r", "e", "m", "a", "s", "t", "e", "r">>

RemasterLen(s, i) ==
    LET n    == Len(RemasterWord)
        base == IF ~(Boundary(s, i) /\ OccursAt(s, RemasterWord, i)) THEN 0
                ELSE IF OccursAt(s, <<"e", "d">>, i + n) /\ Boundary(s, i + n + 2)
                THEN n + 2
                ELSE IF Boundary(s, i + n) THEN n
                ELSE 0
        ws   == SpaceRun(s, i + base)
        ds   == DigitRun(s, i + base + ws)
    IN  IF base = 0 THEN 0
        ELSE IF ds >= 2 THEN base + ws + (IF ds > 4 THEN 4 ELSE ds)
        ELSE base

\* The three characters U+00E2 U+20AC U+201C that line 64 replaces by "-".
Mojibake == <<"U+00E2", "U+20AC", "U+201C">>

\* normalize_text, step by step as lines 52-67 take them.
NormalizeText(text) ==
    LET sub(s, Op(_, _), rep) == SubAll(s, [i \in 1..Len(s) |-> Op(s, i)], rep)
        round(s, i)  == BracketLen(s, i, "(", ")")
        square(s, i) == BracketLen(s, i, "[", "]")
        curly(s, i)  == BracketLen(s, i, "{", "}")
        amp(s, i)    == IF OccursAt(s, <<" ", "&", " ">>, i) THEN 3 ELSE 0
        moji(s, i)   == IF OccursAt(s, Mojibake, i) THEN Len(Mojibake) ELSE 0
        s1 == Lower(Strip(text))
        s2 == sub(s1, FeatLen, <<>>)
        s3 == sub(s2, round, <<" ">>)
        s4 == sub(s3, square, <<" ">>)
        s5 == sub(s4, curly, <<" ">>)
        s6 == sub(s5, EditLen, <<>>)
        s7 == sub(s6, RemasterLen, <<>>)
        s8 == sub(s7, amp, <<" ", "a", "n", "d", " ">>)
        s9 == sub(s8, moji, <<"-">>)
    IN  sub(s9, SpaceRun, <<" ">>)

\* normalize_key: the normalized artist and title, joined by " - ".
NormalizeKey(artist, title) ==
    NormalizeText(artist) \o <<" ", "-", " ">> \o NormalizeText(title)

(***************************************************************************)
(* The cumulative catalog: radio_playlist_consolidator.py                  *)
(***************************************************************************)

\* Station tags in the order sorted() puts them: upper case before lower.
TagOrder == <<"NOVA", "P3", "nan">>

TagRank(t) == CHOOSE i \in 1..Len(TagOrder) : TagOrder[i] = t

\* ", ".join(sorted(tags)): the tags in order, each once.
RECURSIVE JoinSorted(_)
JoinSorted(tags) ==
    IF tags = {} THEN <<>>
    ELSE LET t == CHOOSE x \in tags : \A y \in tags : TagRank(x) <= TagRank(y)
         IN  <<t>> \o JoinSorted(tags \ {t})

\* _split_stations(str(cell)): the stripped, non-empty parts between commas.
\* A missing cell reads as the text "nan", which is one tag.
SplitStations(cell) ==
    IF cell = NaN THEN {"nan"} ELSE {cell[i] : i \in 1..Len(cell)}

\* _normalize_key2: strip and lower both parts, joined by " - ".
NormalizeKey2(artist, title) ==
    Lower(Strip(artist)) \o <<" ", "-", " ">> \o Lower(Strip(title))

\* _split_artist_title: split on the first " - ", else on the first "-",
\* else the whole text is the title.
SplitArtistTitle(track) ==
    LET parts  == Split1(track, <<" ", "-", " ">>)
        parts2 == Split1(track, <<"-">>)
    IN  IF Len(parts) = 2 THEN <<Strip(parts[1]), Strip(parts[2])>>
        ELSE IF Len(parts2) = 2 THEN <<Strip(parts2[1]), Strip(parts2[2])>>
        ELSE <<<<>>, Strip(track)>>

\* The durable file: absent, unparsable, or a table of rows.
NoFile == [exists |-> FALSE, parses |-> TRUE, rows |-> <<>>]

CsvFile(rows) == [exists |-> TRUE, parses |-> TRUE, rows |-> rows]

\* pd.read_csv: an empty cell becomes NaN, any other cell is kept.
ReadText(cell) == IF cell = <<>> THEN NaN ELSE cell

ReadValue(cell) == IF cell = "" THEN "NaN" ELSE cell

\* A load that forgets the stored rows, to compare with.
ReadCsvNothing(rows) == <<>>

\* The stored table as the merge sees it.
ReadCsv(rows) ==
    [i \in 1..Len(rows) |->
        [Artist    |-> ReadText(rows[i].Artist),
         Title     |-> ReadText(rows[i].Title),
         Stations  |-> ReadText(rows[i].Stations),
         FirstSeen |-> rows[i].FirstSeen,
         LastSeen  |-> rows[i].LastSeen,
         BPM       |-> ReadValue(rows[i].BPM),
         Key       |-> ReadValue(rows[i].Key)]]

\* DataFrame.to_csv: NaN is written as an empty cell.
WriteText(cell) == IF cell = NaN THEN <<>> ELSE cell

WriteValue(cell) == IF cell = "NaN" THEN "" ELSE cell

ToCsv(cum) ==
    [i \in 1..Len(cum) |->
        [Artist    |-> WriteText(cum[i].Artist),
         Title     |-> WriteText(cum[i].Title),
         Stations  |-> WriteText(cum[i].Stations),
         FirstSeen |-> cum[i].FirstSeen,
         LastSeen  |-> cum[i].LastSeen,
         BPM       |-> WriteValue(cum[i].BPM),
         Key       |-> WriteValue(cum[i].Key)]]

\* The index-map loop calls .strip() on every stored Artist and Title; on a
\* NaN (a float) that raises AttributeError.
LoadRaises(cum) ==
    \E i \in 1..Len(cum) : cum[i].Artist = NaN \/ cum[i].Title = NaN

\* idx_map of the loaded frame: the first row index of every key.
BuildIdxMap(cum) ==
    LET keys == [i \in 1..Len(cum) |-> NormalizeKey2(cum[i].Artist, cum[i].Title)]
    IN  [k \in {keys[i] : i \in 1..Len(cum)} |->
            CHOOSE i \in 1..Len(cum) :
                /\ keys[i] = k
                /\ \A j \in 1..(i - 1) : keys[j] # k]

\* Today's tags alone, without the union, to compare with.
StationsReplace(cell, today) == JoinSorted(today)

\* Lines 491-493: the stored tags and today's, united, sorted and joined.
StationsUpdate(cell, today) == JoinSorted(SplitStations(cell) \cup today)

\* A FirstSeen that follows every run date, to compare with.
FirstSeenAlways(old, date) == date

\* Lines 494-502: FirstSeen moves to the run date only when that is earlier,
\* LastSeen only when it is later.
FirstSeenUpdate(old, date) == IF old > date THEN date ELSE old

LastSeenUpdate(old, date) == IF old < date THEN date ELSE old

\* A BPM that every run with a tempo overwrites, to compare with.
BpmOverwrite(cell, bpmNew) == IF bpmNew \notin {"None", ""} THEN bpmNew ELSE cell

\* Lines 503-507: BPM is filled when the cell is NaN or "" and the row gives
\* one; Key is filled when str(cell) is empty and the row's key is truthy.
BpmUpdate(cell, bpmNew) ==
    IF cell \in {"NaN", ""} /\ bpmNew \notin {"None", ""} THEN bpmNew ELSE cell

KeyUpdate(cell, keyNew) ==
    IF cell = "" /\ keyNew \notin {"None", ""} THEN keyNew ELSE cell

\* An idx_map that misses the appended row, to compare with.
IdxAfterAppendForgotten(idx, key, n) == idx

\* Line 522: the key of an appended row is entered in idx_map.
IdxAfterAppend(idx, key, n) ==
    [k \in DOMAIN idx \cup {key} |-> IF k = key THEN n ELSE idx[k]]

\* Lines 474-480: the artist and title of an incoming row, taken from its
\* Track text when both columns are empty.
IdentityOf(row) ==
    LET a0 == Strip(row.Artist)
        t0 == Strip(row.Title)
    IN  IF a0 = <<>> /\ t0 = <<>> THEN SplitArtistTitle(row.Track) ELSE <<a0, t0>>

\* One pass of the loop of lines 473-522 over an incoming row.
ApplyRow(st, row, date) ==
    LET artist == IdentityOf(row)[1]
        title  == IdentityOf(row)[2]
        key    == NormalizeKey2(artist, title)
        today  == SplitStations(row.Stations)
    IN  IF artist = <<>> /\ title = <<>> THEN st
        ELSE IF key \in DOMAIN st.idx
        THEN LET i   == st.idx[key]
                 old == st.cum[i]
                 new == [old EXCEPT
                           !.Stations  = StationsUpdate(old.Stations, today),
                           !.FirstSeen = FirstSeenUpdate(old.FirstSeen, date),
                           !.LastSeen  = LastSeenUpdate(old.LastSeen, date),
                           !.BPM       = BpmUpdate(old.BPM, row.BPM),
                           !.Key       = KeyUpdate(old.Key, row.Key)]
             IN  [st EXCEPT !.cum[i] = new]
        ELSE LET new == [Artist    |-> artist,
                         Title     |-> title,
                         Stations  |-> JoinSorted(today),
                         FirstSeen |-> date,
                         LastSeen  |-> date,
                         BPM       |-> IF row.BPM # "None" THEN row.BPM ELSE "",
                         Key       |-> IF row.Key \notin {"None", ""} THEN row.Key ELSE ""]
             IN  [cum |-> Append(st.cum, new),
                  idx |-> IdxAfterAppend(st.idx, key, Len(st.cum) + 1)]

RECURSIVE ApplyRows(_, _, _)
ApplyRows(st, table, date) ==
    IF table = <<>> THEN st
    ELSE ApplyRows(ApplyRow(st, Head(table), date), Tail(table), date)

\* sort_values(['LastSeen', 'Artist', 'Title'], ascending=[False, True, True])
\* with missing values last.
TextBefore(s, t) == s # NaN /\ (t = NaN \/ TextLess(s, t))

RowBefore(a, b) ==
    \/ a.LastSeen > b.LastSeen
    \/ /\ a.LastSeen = b.LastSeen
       /\ \/ TextBefore(a.Artist, b.Artist)
          \/ a.Artist = b.Artist /\ TextBefore(a.Title, b.Title)

\* A merge that starts from an empty table when the stable file cannot be
\* parsed, to compare with.
UpdateCumulativeFromScratch(file, table, date) ==
    LET cum == IF file.parses THEN ReadCsv(file.rows) ELSE <<>>
        end == ApplyRows([cum |-> cum, idx |-> BuildIdxMap(cum)], table, date)
    IN  IF LoadRaises(cum) THEN [raised |-> TRUE, rows |-> <<>>]
        ELSE [raised |-> FALSE, rows |-> ToCsv(SortSeq(end.cum, RowBefore))]

\* What one call of _update_cumulative_playlist makes of the stable file:
\* raised tells whether it raised before its writes, rows is the table it
\* writes to the stable file and to the snapshot of the run date.
UpdateCumulative(file, table, date) ==
    IF file.exists /\ ~file.parses
    THEN [raised |-> TRUE, rows |-> <<>>]
    ELSE LET cum == ReadCsv(file.rows)
         IN  IF LoadRaises(cum)
             THEN [raised |-> TRUE, rows |-> <<>>]
             ELSE LET end == ApplyRows([cum |-> cum, idx |-> BuildIdxMap(cum)],
                                       table, date)
                  IN  [raised |-> FALSE,
                       rows   |-> ToCsv(SortSeq(end.cum, RowBefore))]

(***************************************************************************)
(* The fuzzy resolver: playlist_lib.py match_playlist_rows                 *)
(***************************************************************************)

\* Bound of the model: the number of files of the library index.
MaxTracks == 2

\* process.extract(..., limit=8)
Limit == 8

\* float("inf"), the start value of best_delta.
Inf == 999

\* A missing duration (None), and a missing path.
NoDur == <<>>

NoPath == 0

LibKeys == {"k1", "k2"}

LibDurs == {NoDur, <<200>>, <<203>>}

\* A library index as scan_library builds it: the files in scan order, each
\* with its key and its duration; a file's path is its position.
LibTracks == [key : LibKeys, duration : LibDurs]

Libraries == UNION {[1..n -> LibTracks] : n \in 0..MaxTracks}

\* by_key[k]: the paths of key k, in scan order.
PathsOfKey(lib, k) == SelectSeq([i \in 1..Len(lib) |-> i], LAMBDA i : lib[i].key = k)

\* list(by_key.keys()): the keys in the order of their first file.
KeysOf(lib) ==
    LET first(i) == \A j \in 1..(i - 1) : lib[j].key # lib[i].key
        at       == SelectSeq([i \in 1..Len(lib) |-> i], first)
    IN  [n \in 1..Len(at) |-> lib[at[n]].key]

Abs(x) == IF x < 0 THEN 0 - x ELSE x

\* The loop of best_path_for_key over the paths of a key: a path with a
\* duration strictly closer to the target replaces the best one.
RECURSIVE ClosestPath(_, _, _, _, _)
ClosestPath(lib, paths, target, bestPath, bestDelta) ==
    IF paths = <<>> THEN bestPath
    ELSE LET sp  == Head(paths)
             dur == lib[sp].duration
         IN  IF dur # NoDur /\ Abs(dur[1] - target) < bestDelta
             THEN ClosestPath(lib, Tail(paths), target, sp, Abs(dur[1] - target))
             ELSE ClosestPath(lib, Tail(paths), target, bestPath, bestDelta)

\* The first path of the key whatever the durations, to compare with.
ClosestPathFirst(lib, k, targetDur) ==
    LET paths == PathsOfKey(lib, k)
    IN  IF paths = <<>> THEN NoPath ELSE paths[1]

\* best_path_for_key(k, target_dur)
BestPathForKey(lib, k, targetDur) ==
    LET paths == PathsOfKey(lib, k)
    IN  IF paths = <<>> THEN NoPath
        ELSE IF targetDur = NoDur THEN paths[1]
        ELSE ClosestPath(lib, paths, targetDur[1], paths[1], Inf)

\* One pass of the selection loop of lines 502-521 over a candidate.
ConsiderCandidate(lib, row, ch, cand) ==
    LET path == BestPathForKey(lib, cand.key, row.duration)
        dur  == IF path = NoPath THEN NoDur ELSE lib[path].duration
    IN  IF row.duration # NoDur /\ path # NoPath /\ dur # NoDur
        THEN LET delta == Abs(dur[1] - row.duration[1])
                 \* (best_delta or float("inf")): a best_delta of 0.0 is falsy
                 eff   == IF ch.delta = 0 THEN Inf ELSE ch.delta
             IN  IF delta < eff \/ (delta = eff /\ cand.score > ch.score)
                 THEN [key |-> cand.key, path |-> path, score |-> cand.score,
                       delta |-> delta]
                 ELSE ch
        ELSE IF cand.score > ch.score
             THEN [ch EXCEPT !.key = cand.key, !.path = path, !.score = cand.score]
             ELSE ch

RECURSIVE ChooseAll(_, _, _, _)
ChooseAll(lib, row, ch, cands) ==
    IF cands = <<>> THEN ch
    ELSE ChooseAll(lib, row, ConsiderCandidate(lib, row, ch, Head(cands)), Tail(cands))

\* The first n elements of a sequence.
Take(seq, n) == SubSeq(seq, 1, IF Len(seq) < n THEN Len(seq) ELSE n)

NoKey == "none"

\* An acceptance below the threshold for the duration alone, whatever the
\* score, to compare with.
RescuedAnyScore(row, ch, threshold) == row.duration # NoDur /\ ch.delta <= 4

\* Lines 524-526: whether a candidate is accepted below the threshold for
\* its duration.
Rescued(row, ch, threshold) ==
    row.duration # NoDur /\ ch.delta <= 4 /\ ch.score >= threshold - 8

\* The bare score of a rescued candidate, to compare with.
ConfidenceOfRescueRaw(score, threshold) == score

\* max(chosen_score, threshold - 2)
ConfidenceOfRescue(score, threshold) ==
    IF score > threshold - 2 THEN score ELSE threshold - 2

\* Lines 491-493: the first Limit candidates of the ranking that score at
\* least max(0, threshold - 12).
Candidates(threshold, ranked) ==
    LET floor == IF threshold - 12 > 0 THEN threshold - 12 ELSE 0
    IN  SelectSeq(Take(ranked, Limit), LAMBDA c : c.score >= floor)

\* The body of the loop of match_playlist_rows for one row.  ranked is what
\* process.extract returns before the limit: the keys of the index with
\* their scores, best first.  The result is the path and the confidence
\* returned, the branch that returned them, and chosen_key, chosen_path,
\* chosen_score and best_delta as the selection loop left them.
MatchRow(lib, row, threshold, ranked) ==
    LET cands == Candidates(threshold, ranked)
        start == [key |-> NoKey, path |-> NoPath, score |-> -1, delta |-> Inf]
        ch    == ChooseAll(lib, row, start, cands)
    IN  IF PathsOfKey(lib, row.key) # <<>>
        THEN [path |-> BestPathForKey(lib, row.key, row.duration),
              confidence |-> 100, how |-> "exact", chosen |-> start]
        ELSE IF KeysOf(lib) = <<>>
        THEN [path |-> NoPath, confidence |-> 0, how |-> "empty", chosen |-> start]
        ELSE IF cands = <<>>
        THEN [path |-> NoPath, confidence |-> 0, how |-> "window", chosen |-> start]
        ELSE IF ch.key # NoKey /\ ch.score >= threshold
        THEN [path |-> ch.path, confidence |-> ch.score, how |-> "accept",
              chosen |-> ch]
        ELSE IF Rescued(row, ch, threshold)
        THEN [path |-> ch.path,
              confidence |-> ConfidenceOfRescue(ch.score, threshold),
              how |-> "rescue", chosen |-> ch]
        ELSE [path |-> NoPath,
              confidence |-> IF ch.score >= 0 THEN ch.score ELSE 0,
              how |-> "reject", chosen |-> ch]

(***************************************************************************)
(* The library index: playlist_lib.py scan_library                         *)
(***************************************************************************)

\* A file of the library: absent, or its modification time and what
\* _extract_tags reads from it (an empty text is a missing tag).
NoAudio == [exists |-> FALSE]

\* A name that os.walk lists and whose file cannot be reached: a link whose
\* target is gone. Path.exists() is False for it and Path.stat() raises.
BrokenLink == [exists |-> FALSE, listed |-> TRUE]

AudioFile(mtime, tags) ==
    [exists |-> TRUE, mtime |-> mtime, artist |-> tags.artist,
     title |-> tags.title, duration |-> tags.duration,
     tag_bpm |-> tags.tag_bpm, tag_key |-> tags.tag_key]

\* re.split(r"\s*-\s*", stem, maxsplit=1): the text before the white space
\* in front of the first "-", and the text behind the white space after it.
SplitStem(stem) ==
    LET parts == Split1(stem, <<"-">>)
    IN  IF Len(parts) = 2 THEN <<RStrip(parts[1]), LStrip(parts[2])>> ELSE <<stem>>

\* The index before the first scan.
EmptyIndex == [tracks |-> <<>>, by_key |-> <<>>, mtime |-> <<>>]

\* The paths of tracks, and the position of a path in it (0: not there).
TrackPaths(tracks) == {tracks[i].path : i \in 1..Len(tracks)}

TrackAt(tracks, p) ==
    IF p \in TrackPaths(tracks)
    THEN CHOOSE i \in 1..Len(tracks) : tracks[i].path = p
    ELSE 0

\* dict[key] = value: a known key keeps its place, a new one goes last.
PutTrack(tracks, entry) ==
    LET i == TrackAt(tracks, entry.path)
    IN  IF i = 0 THEN Append(tracks, entry) ELSE [tracks EXCEPT ![i] = entry]

PutMtime(mtime, p, t) ==
    [q \in DOMAIN mtime \cup {p} |-> IF q = p THEN t ELSE mtime[q]]

\* Lines 281-291: the paths of tracks whose file is gone are taken out of
\* tracks and out of mtime.
Prune(files, idx) ==
    LET gone == {p \in TrackPaths(idx.tracks) : ~files[p].exists}
    IN  [idx EXCEPT
           !.tracks = SelectSeq(idx.tracks, LAMBDA e : e.path \notin gone),
           !.mtime  = [q \in DOMAIN idx.mtime \ gone |-> idx.mtime[q]]]

\* Line 302: p.stat() is not guarded; it raises for a name whose file
\* cannot be reached.
StatRaises(f) == f = BrokenLink

\* A test that finds every file changed, to compare with.
UnchangedNever(mtime, p, f) == FALSE

\* Line 303: the modification time of the file is the one recorded for it.
Unchanged(mtime, p, f) == p \in DOMAIN mtime /\ mtime[p] = f.mtime

\* Lines 296-326, for one file of the walk: st holds the index and the paths
\* parsed so far.
ScanFile(files, st, p) ==
    LET f      == files[p]
        parts  == SplitStem(p)
        named  == (f.artist = <<>> \/ f.title = <<>>) /\ Len(parts) = 2
        artist == IF named /\ f.artist = <<>> THEN parts[1] ELSE f.artist
        title  == IF named /\ f.title = <<>> THEN parts[2] ELSE f.title
        entry  == [path |-> p, artist |-> artist, title |-> title,
                   key |-> NormalizeKey(artist, title),
                   duration |-> f.duration, tag_bpm |-> f.tag_bpm,
                   tag_key |-> f.tag_key]
        seen   == [st EXCEPT !.parsed = @ \cup {p},
                             !.index.mtime = PutMtime(@, p, f.mtime)]
    IN  IF StatRaises(f) THEN [st EXCEPT !.raised = TRUE]
        ELSE IF Unchanged(st.index.mtime, p, f) THEN st
        ELSE IF artist = <<>> \/ title = <<>> THEN seen
        ELSE [seen EXCEPT !.index.tracks = PutTrack(@, entry)]

RECURSIVE Walk(_, _, _)
Walk(files, st, order) ==
    IF order = <<>> \/ st.raised THEN st
    ELSE Walk(files, ScanFile(files, st, Head(order)), Tail(order))

\* Lines 328-332: by_key, rebuilt from tracks: the keys in the order of their
\* first track, each with its paths in the order of tracks.
RebuildByKey(tracks) ==
    LET first(i) == \A j \in 1..(i - 1) : tracks[j].key # tracks[i].key
        at       == SelectSeq([i \in 1..Len(tracks) |-> i], first)
        of(k)    == SelectSeq(tracks, LAMBDA e : e.key = k)
    IN  [n \in 1..Len(at) |->
            [key   |-> tracks[at[n]].key,
             paths |-> [j \in 1..Len(of(tracks[at[n]].key)) |->
                           of(tracks[at[n]].key)[j].path]]]

\* scan_library(root, existing_index) when os.walk yields the files in the
\* given order: the index it returns and the paths it parsed.
ScanLibrary(files, existing, order) ==
    LET st == Walk(files, [index |-> Prune(files, existing), parsed |-> {},
                           raised |-> FALSE], order)
    IN  [index  |-> [st.index EXCEPT !.by_key = RebuildByKey(st.index.tracks)],
         parsed |-> st.parsed,
         raised |-> st.raised]

(***************************************************************************)
(* The playlist reader: playlist_lib.py read_playlist_csv                  *)
(***************************************************************************)

\* _norm_header_name: stripped, lower case, "_" and "-" turned into blanks,
\* runs of white space into one blank.
NormHeaderName(name) ==
    LET sub(s, Op(_, _), rep) == SubAll(s, [i \in 1..Len(s) |-> Op(s, i)], rep)
        bar(s, i) == IF s[i] \in {"_", "-"} THEN 1 ELSE 0
    IN  sub(sub(Lower(Strip(name)), bar, <<" ">>), SpaceRun, <<" ">>)

\* _pick_col, as the position of the column it returns (0: None): the
\* column whose normalized name is the first candidate that is a name, else
\* the first column whose normalized name holds one of the substrings. The
\* header names of the model are distinct after normalization.
PickCol(fieldnames, candidates, contains) ==
    LET names   == [i \in 1..Len(fieldnames) |-> NormHeaderName(fieldnames[i])]
        named(c) == {i \in 1..Len(names) : names[i] = NormHeaderName(c)}
        hits    == SelectSeq(candidates, LAMBDA c : named(c) # {})
        holds   == {i \in 1..Len(names) :
                       \E j \in 1..Len(contains) :
                           Contains(names[i], NormHeaderName(contains[j]))}
    IN  IF hits # <<>> THEN CHOOSE i \in named(Head(hits)) : TRUE
        ELSE IF holds # {} THEN CHOOSE i \in holds : \A j \in holds : i <= j
        ELSE 0

ArtistWord == <<"a", "r", "t", "i", "s", "t">>

AuthorWord == <<"a", "u", "t", "h", "o", "r">>

TitleWord == <<"t", "i", "t", "l", "e">>

\* Line 777: if a.strip() and t.strip()
KeepsRow(a, t) == Strip(a) # <<>> /\ Strip(t) # <<>>

\* read_playlist_csv on a file with a header line and data lines: the artist
\* and the title of the TrackRows it returns. A cell that a line does not
\* have reads as None and counts as "".
ReadPlaylistCsv(file) ==
    LET artist_col == PickCol(file.header, <<ArtistWord>>, <<ArtistWord, AuthorWord>>)
        title_col  == PickCol(file.header, <<TitleWord>>, <<TitleWord>>)
        cell(r, i) == IF i <= Len(r) THEN r[i] ELSE <<>>
        simple     == SelectSeq(file.lines, LAMBDA r : Len(r) >= 2)
        kept       == SelectSeq(file.lines,
                          LAMBDA r : KeepsRow(cell(r, artist_col), cell(r, title_col)))
    IN  IF artist_col = 0 \/ title_col = 0
        THEN [i \in 1..Len(simple) |->
                 [artist |-> simple[i][1], title |-> simple[i][2]]]
        ELSE [i \in 1..Len(kept) |->
                 [artist |-> cell(kept[i], artist_col),
                  title  |-> cell(kept[i], title_col)]]

(***************************************************************************)
(* The playlist exporters: playlist_lib.py export_vdjfolder_mode,          *)
(* export_m3u8_mode                                                        *)
(***************************************************************************)

\* _escape_xml_attr: & first, then the double quote, < and >.
EscapeXmlAttr(p) ==
    LET at(s, c)   == [i \in 1..Len(s) |-> IF s[i] = c THEN 1 ELSE 0]
        s1 == SubAll(p,  at(p, "&"),   <<"&", "a", "m", "p", ";">>)
        s2 == SubAll(s1, at(s1, "\""), <<"&", "q", "u", "o", "t", ";">>)
        s3 == SubAll(s2, at(s2, "<"),  <<"&", "l", "t", ";">>)
    IN  SubAll(s3, at(s3, ">"), <<"&", "g", "t", ";">>)

\* A playlist file: absent, or its lines.
NoList == [exists |-> FALSE, lines |-> <<>>]

ListFile(lines) == [exists |-> TRUE, lines |-> lines]

\* The lines of a .vdjfolder; the text up to the opening quote of the path
\* attribute is one element, the path attribute follows character by
\* character between two quotes.
SongOpen == "  <song path="

SongLine(p) == <<SongOpen, "\"">> \o EscapeXmlAttr(p) \o <<"\"", " />">>

\* build_song_paths_for_vdj with use_generic_netsearch=False: the local
\* path, else netsearch://<tidal id>, else nothing.
RECURSIVE BuildSongPathsForVdj(_)
BuildSongPathsForVdj(matches) ==
    IF matches = <<>> THEN <<>>
    ELSE LET m == Head(matches)
             rest == BuildSongPathsForVdj(Tail(matches))
         IN  IF m.local # <<>> THEN <<m.local>> \o rest
             ELSE IF m.tidal # <<>> THEN <<<<"netsearch://">> \o m.tidal>> \o rest
             ELSE rest

\* re.search(r'<song\s+[^>]*path="([^"]+)"', line): the characters between
\* the opening quote and the next quote, at least one; none when no match.
PathOfLine(line) ==
    IF /\ Len(line) >= 4
       /\ line[1] = SongOpen /\ line[2] = "\"" /\ line[3] # "\""
       /\ \E j \in 4..Len(line) : line[j] = "\""
    THEN LET j == CHOOSE k \in 4..Len(line) :
                      /\ line[k] = "\""
                      /\ \A n \in 4..(k - 1) : line[n] # "\""
         IN  SubSeq(line, 3, j - 1)
    ELSE <<>>

\* parse_vdjfolder_paths: the path attribute of every song line, as it
\* stands in the file.
ParseVdjfolderPaths(file) ==
    LET found == SelectSeq(file.lines, LAMBDA l : PathOfLine(l) # <<>>)
    IN  [i \in 1..Len(found) |-> PathOfLine(found[i])]

\* write_vdjfolder_paths
WriteVdjfolderPaths(paths) ==
    ListFile(<<<<"<VirtualFolder>">>>>
                 \o [i \in 1..Len(paths) |-> SongLine(paths[i])]
                 \o <<<<"</VirtualFolder>">>>>)

RangeOf(seq) == {seq[i] : i \in 1..Len(seq)}

\* The list's own name whatever new_name is, to compare with.
TargetNameList(listName, newName) == listName

\* (new_name or list_name).strip() or list_name
TargetName(listName, newName) ==
    LET t == Strip(IF newName = <<>> THEN listName ELSE newName)
    IN  IF t = <<>> THEN listName ELSE t

\* The "add" branch of export_vdjfolder_mode: what the file of the list
\* holds after it.
VdjAdd(file, newPaths) ==
    LET existing == IF file.exists THEN ParseVdjfolderPaths(file) ELSE <<>>
        seen     == RangeOf(existing)
    IN  WriteVdjfolderPaths(existing \o SelectSeq(newPaths, LAMBDA p : p \notin seen))

\* build_m3u_entries: an #EXTINF line and a path line for every match with
\* a local path.
ExtInf(m) == <<"#", "EXTINF:-1,">> \o m.row

RECURSIVE BuildM3uEntries(_)
BuildM3uEntries(matches) ==
    IF matches = <<>> THEN <<>>
    ELSE LET m == Head(matches)
         IN  (IF m.local # <<>> THEN <<<<ExtInf(m), m.local>>>> ELSE <<>>)
                 \o BuildM3uEntries(Tail(matches))

\* The two lines of every entry, one after the other.
RECURSIVE EntryLines(_)
EntryLines(entries) ==
    IF entries = <<>> THEN <<>>
    ELSE <<Head(entries)[1], Head(entries)[2]>> \o EntryLines(Tail(entries))

\* parse_m3u_paths: the stripped lines that are neither empty nor comments.
ParseM3uPaths(file) ==
    LET kept == SelectSeq(file.lines,
                          LAMBDA l : Strip(l) # <<>> /\ Strip(l)[1] # "#")
    IN  [i \in 1..Len(kept) |-> Strip(kept[i])]

\* write_m3u_from_entries
WriteM3uFromEntries(entries) ==
    ListFile(<<<<"#", "EXTM3U">>>> \o EntryLines(entries))

\* The "add" branch of export_m3u8_mode.
M3uAdd(file, entries) ==
    LET existing == RangeOf(ParseM3uPaths(file))
        toAppend == SelectSeq(entries, LAMBDA e : e[2] \notin existing)
    IN  IF ~file.exists THEN WriteM3uFromEntries(entries)
        ELSE IF toAppend = <<>> THEN file
        ELSE ListFile(file.lines \o EntryLines(toAppend))

\* Before the first call of the resolver.
NoQuery == [asked |-> FALSE]

NoResult ==
    [path |-> NoPath, confidence |-> 0, how |-> "none",
     chosen |-> [key |-> NoKey, path |-> NoPath, score |-> -1, delta |-> Inf]]

RowKeys == {"k1", "q"}

RowDurs == {NoDur, <<200>>, <<207>>}

Rows == [key : RowKeys, duration : RowDurs]

\* The slider of the app offers 70..100; 85 is the default of the function.
Thresholds == {85, 88, 100}

\* Scores of token_set_ratio, on both sides of every limit the code draws
\* for these thresholds.
Scores == {72, 76, 79, 84, 90}

\* What process.extract can return for an index: each key once with some
\* score, the better score first, keys of equal score in either order.
Rankings(lib) ==
    LET n == Len(KeysOf(lib))
    IN  {r \in [1..n -> [key : LibKeys, score : Scores]] :
            /\ \A i \in 1..n : \E j \in 1..n : r[j].key = KeysOf(lib)[i]
            /\ \A i \in 1..(n - 1) : r[i].score >= r[i + 1].score}

(***************************************************************************)
(* Runs of the merge                                                       *)
(***************************************************************************)

\* Bounds of the model.
MaxDate == 2

MaxMerges == 2

Dates == 1..MaxDate

\* Who a per-run row is about: Artist and Title columns (one track in two
\* spellings), or a Track column only ("Artist - Title", here with a guest
\* marker that normalize_text removes).
Idents ==
    { [Artist |-> <<"A", " ", "b">>,      Title |-> <<"t">>, Track |-> <<>>],
      [Artist |-> <<" ", "A", " ", "B">>, Title |-> <<"t">>, Track |-> <<>>],
      [Artist |-> <<>>, Title |-> <<>>,
       Track  |-> <<"A", " ", "f", "t", " ", "b", " ", "-", " ", "t">>] }

\* What a run knows about a track: the stations that played it, and the
\* tempo and key the enrichment found for it.
Features == { [Stations |-> <<>>, BPM |-> "None", Key |-> "None"],
              [Stations |-> <<"NOVA">>, BPM |-> "120",  Key |-> "8A"],
              [Stations |-> <<"P3">>, BPM |-> "128",  Key |-> "5B"] }

\* A Track with no separator: the whole text is the title, the artist empty.
BareTitleRow ==
    [Artist |-> <<>>, Title |-> <<>>, Track |-> <<"t">>,
     Stations |-> <<"NOVA">>, BPM |-> "None", Key |-> "None"]

RunRows ==
    { [Artist |-> i.Artist, Title |-> i.Title, Track |-> i.Track,
       Stations |-> f.Stations, BPM |-> f.BPM, Key |-> f.Key] :
        i \in Idents, f \in Features }

\* A per-run table: one row, or two rows that spell one track differently,
\* in either order (the consolidation of lines 158-167 keeps one row per
\* Track text, so a table never holds the same text twice).
RunTables ==
    {<<r>> : r \in RunRows \cup {BareTitleRow}}
        \cup {<<p[1], p[2]>> :
                 p \in {x \in RunRows \X RunRows :
                           /\ <<x[1].Artist, x[1].Title>> # <<x[2].Artist, x[2].Title>>
                           /\ x[1].Track = <<>> /\ x[2].Track = <<>>}}

\* Bounds of the model: export calls in a run, matches in a call.
MaxExports == 2

MaxMatches == 2

\* The list exported, and the names a list can be saved as: none, a blank,
\* the name of the list itself (what the text input of the page holds until
\* it is edited), and another name, typed with a blank behind it.
ListName == <<"L">>

NewNames == {<<>>, <<" ">>, <<"L">>, <<"N", " ">>}

FileNames == {<<"L">>, <<"N">>}

\* Results of the resolver: a local file with an ampersand in its path, a
\* TIDAL id only (its netsearch path needs no escaping), or nothing.
MatchItems ==
    { [row |-> <<"r", "1">>, local |-> <<"/", "a", "&", "b">>, tidal |-> <<>>],
      [row |-> <<"r", "2">>, local |-> <<>>, tidal |-> <<"7">>],
      [row |-> <<"r", "3">>, local |-> <<>>, tidal |-> <<>>] }

\* The matches of a call: at most MaxMatches rows of the playlist, each
\* row once, in any order.
MatchLists ==
    {ms \in UNION {[1..n -> MatchItems] : n \in 0..MaxMatches} :
        \A i, j \in 1..Len(ms) : i # j => ms[i] # ms[j]}

\* The mode of a call with the new_name it passes: a new_name only matters
\* to save_as_new.
Calls ==
    {<<"replace", <<>>>>, <<"add", <<>>>>} \cup {<<"save_as_new", n>> : n \in NewNames}

NoExport == [format |-> "none"]

\* Bound of the model: the number of pieces a title is put together from.
MaxPieces == 3

\* Pieces of titles: a word, a blank, a bracketed qualifier, a guest marker,
\* a remaster note and the ampersand.
Pieces ==
    { <<"T">>, <<" ">>, <<"(", "l", "i", "v", "e", ")">>, <<"f", "t">>,
      <<"r", "e", "m", "a", "s", "t", "e", "r">>, <<"&">> }

RECURSIVE Concat(_)
Concat(seqs) == IF seqs = <<>> THEN <<>> ELSE Head(seqs) \o Concat(Tail(seqs))

Titles == {Concat(ps) : ps \in UNION {[1..n -> Pieces] : n \in 0..MaxPieces}}

Artists == {<<"A", " ", "b">>, <<"A", " ", "f", "t", ".", " ", "b">>}

\* Before the first call of normalize_key.
NoNorm == [calls |-> 0]

\* Bound of the model: the modification times a file can have.
MaxTime == 2

\* The audio files of the library by the stem of their name, one that
\* splits into artist and title and one that does not.
Paths == {<<"A", " ", "-", " ", "T">>, <<"x">>}

\* What _extract_tags can read: artist and title, the title only, nothing.
Tags ==
    { [artist |-> <<"A">>, title |-> <<"T">>, duration |-> <<200>>,
       tag_bpm |-> "120", tag_key |-> "8A"],
      [artist |-> <<>>, title |-> <<"U">>, duration |-> <<203>>,
       tag_bpm |-> "None", tag_key |-> "None"],
      [artist |-> <<>>, title |-> <<>>, duration |-> NoDur,
       tag_bpm |-> "None", tag_key |-> "None"] }

AudioFiles == {AudioFile(t, g) : t \in 1..MaxTime, g \in Tags}

\* The orders in which os.walk can yield the files that exist.
WalkOrders(files) ==
    LET here == {p \in Paths : files[p] # NoAudio}
    IN  {o \in UNION {[1..n -> here] : n \in 0..Cardinality(Paths)} :
            /\ Len(o) = Cardinality(here)
            /\ \A i, j \in 1..Len(o) : i # j => o[i] # o[j]}

\* Bound of the model: the browser sessions of the app, each running its
\* script in a thread of its own.
MaxSessions == 3

Sessions == 1..MaxSessions

\* Bound of the model: the data lines of a playlist CSV.
MaxLines == 2

\* Header lines: the plain names, names found by the substrings, and names
\* in Danish that the detection does not know.
Headers ==
    { <<<<"A", "r", "t", "i", "s", "t">>, <<"T", "i", "t", "l", "e">>>>,
      <<<<"T", "r", "a", "c", "k", "_", "T", "i", "t", "l", "e">>,
        <<"A", "u", "t", "h", "o", "r">>>>,
      <<<<"K", "u", "n", "s", "t", "n", "e", "r">>, <<"T", "i", "t", "e", "l">>>> }

\* Cells: empty, a blank, a word; and lines of one or two cells.
Cells == {<<>>, <<" ">>, <<"A">>}

CsvLines == {<<c>> : c \in Cells} \cup {<<c, d>> : c \in Cells, d \in Cells}

CsvFiles ==
    {[header |-> h, lines |-> ls] :
        h \in Headers, ls \in UNION {[1..n -> CsvLines] : n \in 0..MaxLines}}

\* Before the first call of read_playlist_csv.
NoRead == [asked |-> FALSE]

\* Before anything ran: no catalog file, an empty library index, no call of
\* the resolver, no playlist file.
Init ==
    /\ stable = NoFile
    /\ snapshot = [d \in Dates |-> NoFile]
    /\ merges = 0
    /\ outcome = "none"
    /\ library = <<>>
    /\ query = NoQuery
    /\ result = NoResult
    /\ vdj = [n \in FileNames |-> NoList]
    /\ m3u = [n \in FileNames |-> NoList]
    /\ exports = 0
    /\ lastExport = NoExport
    /\ norm = NoNorm
    /\ lock = FALSE
    /\ session = [i \in Sessions |-> "page"]
    /\ disk = [p \in Paths |-> NoAudio]
    /\ index = EmptyIndex
    /\ parsed = {}
    /\ scanned = "none"
    /\ scans = 0
    /\ read = NoRead

\* A file that is opened for writing before the table is computed, to
\* compare with: a call that raises leaves it empty.
WrittenFirst(file, r) == CsvFile(r.rows)

\* Lines 519-521: the two to_csv calls are the last statements, reached only
\* when nothing raised before; a file is then the new table, else what it was.
Written(file, r) == IF r.raised THEN file ELSE CsvFile(r.rows)

\* One call _update_cumulative_playlist(all_df, combined_dir, stations_str,
\* date_str): nothing is written when it raises, else the stable file and the
\* snapshot of the date are both overwritten with the new table.
Merge(table, date) ==
    /\ merges < MaxMerges
    /\ merges' = merges + 1
    /\ \E r \in {UpdateCumulative(stable, table, date)} :
           /\ outcome' = IF r.raised THEN "raised" ELSE "ok"
           /\ stable' = Written(stable, r)
           /\ snapshot' = [snapshot EXCEPT ![date] = Written(@, r)]
    /\ UNCHANGED exceptMerge

\* The stable file is damaged between runs (say cut off inside a quoted
\* field), so that pd.read_csv raises on it.
Damage ==
    /\ stable.exists /\ stable.parses
    /\ stable' = [stable EXCEPT !.parses = FALSE]
    /\ UNCHANGED <<snapshot, merges, outcome, exceptMerge>>

MergeNext == \E t \in RunTables, d \in Dates : Merge(t, d)

\* Runs of the merge from an absent stable file.
SpecMerge == Init /\ [][MergeNext]_vars

DamageNext == MergeNext \/ Damage

\* The same runs, with a stable file that can be damaged between them.
SpecDamage == Init /\ [][DamageNext]_vars

(***************************************************************************)
(* Runs of the resolver                                                    *)
(***************************************************************************)

\* load_index: the library index of the session is read, once, before rows
\* are resolved against it.
LoadIndex(lib) ==
    /\ library = <<>> /\ ~query.asked
    /\ library' = lib
    /\ UNCHANGED <<query, result, exceptMatch>>

\* match_playlist_rows([row], library_index, threshold)
Match(row, threshold, ranked) ==
    /\ ~query.asked
    /\ query' = [asked |-> TRUE, row |-> row, threshold |-> threshold,
                 ranked |-> ranked]
    /\ result' = MatchRow(library, row, threshold, ranked)
    /\ UNCHANGED <<library, exceptMatch>>

MatchNext ==
    \/ \E lib \in Libraries \ {<<>>} : LoadIndex(lib)
    \/ \E row \in Rows, t \in Thresholds, r \in Rankings(library) : Match(row, t, r)

SpecMatch == Init /\ [][MatchNext]_vars

(***************************************************************************)
(* Runs of the exporters                                                   *)
(***************************************************************************)

\* export_vdjfolder_mode(ListName, matches, dir, mode, new_name)
ExportVdjfolderMode(matches, mode, newName) ==
    LET newPaths == BuildSongPathsForVdj(matches)
        target   == IF mode = "save_as_new" THEN TargetName(ListName, newName)
                    ELSE ListName
        written  == IF mode = "add" THEN VdjAdd(vdj[ListName], newPaths)
                    ELSE WriteVdjfolderPaths(newPaths)
    IN  /\ exports < MaxExports
        /\ exports' = exports + 1
        /\ vdj' = [vdj EXCEPT ![target] = written]
        /\ lastExport' = [format |-> "vdjfolder", mode |-> mode, target |-> target,
                          newName |-> newName, matches |-> matches]
        /\ UNCHANGED <<m3u, exceptExport>>

\* export_m3u8_mode(ListName, matches, dir, mode, new_name)
ExportM3u8Mode(matches, mode, newName) ==
    LET entries == BuildM3uEntries(matches)
        target  == IF mode = "save_as_new" THEN TargetName(ListName, newName)
                   ELSE ListName
        written == IF mode = "add" THEN M3uAdd(m3u[ListName], entries)
                   ELSE WriteM3uFromEntries(entries)
    IN  /\ exports < MaxExports
        /\ exports' = exports + 1
        /\ m3u' = [m3u EXCEPT ![target] = written]
        /\ lastExport' = [format |-> "m3u8", mode |-> mode, target |-> target,
                          newName |-> newName, matches |-> matches]
        /\ UNCHANGED <<vdj, exceptExport>>

ExportNext ==
    \E ms \in MatchLists, c \in Calls :
        \/ ExportVdjfolderMode(ms, c[1], c[2])
        \/ ExportM3u8Mode(ms, c[1], c[2])

SpecExport == Init /\ [][ExportNext]_vars

(***************************************************************************)
(* Runs of the normalizer                                                  *)
(***************************************************************************)

\* normalize_key(artist, title) on the texts of a playlist row.
NormalizeKeyCall(artist, title) ==
    /\ norm.calls = 0
    /\ norm' = [calls |-> 1, rawArtist |-> artist, rawTitle |-> title,
                artist |-> NormalizeText(artist),
                title |-> NormalizeText(title),
                key |-> NormalizeKey(artist, title)]
    /\ UNCHANGED exceptNorm

\* normalize_text and normalize_key on what the first call returned.
NormalizeKeyAgain ==
    /\ norm.calls = 1
    /\ norm' = [calls |-> 2, rawArtist |-> norm.rawArtist,
                rawTitle |-> norm.rawTitle,
                artist |-> norm.artist, title |-> norm.title,
                key |-> norm.key,
                artist2 |-> NormalizeText(norm.artist),
                title2 |-> NormalizeText(norm.title),
                key2 |-> NormalizeKey(norm.artist, norm.title)]
    /\ UNCHANGED exceptNorm

NormNext ==
    \/ \E a \in Artists, t \in Titles : NormalizeKeyCall(a, t)
    \/ NormalizeKeyAgain

SpecNorm == Init /\ [][NormNext]_vars

(***************************************************************************)
(* Runs of the library scan                                                *)
(***************************************************************************)

\* A file is copied into the library, retagged or replaced.
WriteAudio(p, f) ==
    /\ disk[p] # f
    /\ disk' = [disk EXCEPT ![p] = f]
    /\ UNCHANGED <<index, parsed, scanned, scans, exceptScan>>

\* The target of a link in the library goes away.
BreakLink(p) ==
    /\ disk[p] # BrokenLink
    /\ disk' = [disk EXCEPT ![p] = BrokenLink]
    /\ UNCHANGED <<index, parsed, scanned, scans, exceptScan>>

\* A file is deleted or moved away.
DeleteAudio(p) ==
    /\ disk[p] # NoAudio
    /\ disk' = [disk EXCEPT ![p] = NoAudio]
    /\ UNCHANGED <<index, parsed, scanned, scans, exceptScan>>

\* The "Rescan library" button: the index file is loaded, scanned and saved;
\* when scan_library raises, save_index is not reached.
Scan(order) ==
    /\ \E r \in {ScanLibrary(disk, index, order)} :
           /\ index' = IF r.raised THEN index ELSE r.index
           /\ parsed' = r.parsed
           /\ scanned' = IF r.raised THEN "raised" ELSE "ok"
    /\ scans' = 1 - scans
    /\ UNCHANGED <<disk, exceptScan>>

ScanNext ==
    \/ \E p \in Paths, f \in AudioFiles : WriteAudio(p, f)
    \/ \E p \in Paths : BreakLink(p)
    \/ \E p \in Paths : DeleteAudio(p)
    \/ \E o \in WalkOrders(disk) : Scan(o)

SpecScan == Init /\ [][ScanNext]_vars

(***************************************************************************)
(* Starting the orchestrator under the lock file                           *)
(***************************************************************************)

\* The "Start orchestrator" button is pressed; the page drew it enabled,
\* that is when no lock file existed.
PressStart(i) ==
    /\ session[i] = "page" /\ ~lock
    /\ session' = [session EXCEPT ![i] = "pressed"]
    /\ UNCHANGED <<lock, exceptLock>>

\* if LOCK_PATH.exists(): warn and return None
TestLock(i) ==
    /\ session[i] = "pressed"
    /\ session' = [session EXCEPT ![i] = IF lock THEN "page" ELSE "tested"]
    /\ UNCHANGED <<lock, exceptLock>>

\* LOCK_PATH.write_text(...)
WriteLock(i) ==
    /\ session[i] = "tested"
    /\ lock' = TRUE
    /\ session' = [session EXCEPT ![i] = "locked"]
    /\ UNCHANGED exceptLock

\* subprocess.Popen(args) starts the orchestrator; the clean-up thread
\* waits for it.
StartProcess(i) ==
    /\ session[i] = "locked"
    /\ session' = [session EXCEPT ![i] = "running"]
    /\ UNCHANGED <<lock, exceptLock>>

\* subprocess.Popen raises: the handler removes the lock file and the call
\* returns None.
StartFails(i) ==
    /\ session[i] = "locked"
    /\ lock' = FALSE
    /\ session' = [session EXCEPT ![i] = "page"]
    /\ UNCHANGED exceptLock

\* The orchestrator process exits; p.wait() returns in the clean-up thread.
ProcessExits(i) ==
    /\ session[i] = "running"
    /\ session' = [session EXCEPT ![i] = "exited"]
    /\ UNCHANGED <<lock, exceptLock>>

\* _cleanup_on_exit: the lock file is removed if it exists.
CleanupOnExit(i) ==
    /\ session[i] = "exited"
    /\ lock' = FALSE
    /\ session' = [session EXCEPT ![i] = "page"]
    /\ UNCHANGED exceptLock

LockNext ==
    \E i \in Sessions :
        \/ PressStart(i)
        \/ TestLock(i)
        \/ WriteLock(i)
        \/ StartProcess(i)
        \/ StartFails(i)
        \/ ProcessExits(i)
        \/ CleanupOnExit(i)

SpecLock == Init /\ [][LockNext]_vars

\* The app process ends (the server is stopped or restarted) while a
\* clean-up thread waits for its orchestrator or is about to run: the thread
\* is a daemon thread and ends with the process, the orchestrator was
\* started "detached so it survives app reloads", the lock file is a file
\* and stays. The sessions of the next app process start from the page.
AppExits ==
    /\ \E i \in Sessions : session[i] \in {"running", "exited"}
    /\ session' = [i \in Sessions |-> "page"]
    /\ UNCHANGED <<lock, exceptLock>>

LockLiveNext == LockNext \/ AppExits

\* The same steps under the scheduling of the code: a handler that has
\* started goes on, a started process ends, a clean-up thread whose wait has
\* returned runs. Nothing obliges a user to press, or the app to end.
LockFairness ==
    \A i \in Sessions :
        /\ WF_vars(TestLock(i))
        /\ WF_vars(WriteLock(i))
        /\ WF_vars(StartProcess(i) \/ StartFails(i))
        /\ WF_vars(ProcessExits(i))
        /\ WF_vars(CleanupOnExit(i))

SpecLockLive == Init /\ [][LockLiveNext]_vars /\ LockFairness

(***************************************************************************)
(* Runs of the playlist reader                                             *)
(***************************************************************************)

\* rows = read_playlist_csv(path), the first statement of
\* resolve_matches_for_csv.
ReadPlaylistCsvCall(file) ==
    /\ ~read.asked
    /\ read' = [asked |-> TRUE, file |-> file, rows |-> ReadPlaylistCsv(file)]
    /\ UNCHANGED exceptRead

ReadNext == \E f \in CsvFiles : ReadPlaylistCsvCall(f)

SpecRead == Init /\ [][ReadNext]_vars

(***************************************************************************)
(* Properties of the merge                                                 *)
(***************************************************************************)

\* The key of a row of the stable file, and the tags of its Stations cell.
KeyOfRow(r) == NormalizeKey2(r.Artist, r.Title)

TagsOfRow(r) == {r.Stations[i] : i \in 1..Len(r.Stations)}

RowsOf(file) == {file.rows[i] : i \in 1..Len(file.rows)}

Keyed(file) == {<<KeyOfRow(r), r>> : r \in RowsOf(file)}

\* C2: in every row FirstSeen is not after LastSeen, and over a merge the
\* FirstSeen of a key never becomes later and its LastSeen never earlier.
C2_SeenDatesOrdered ==
    [][ LET before == Keyed(stable)
            after  == Keyed(stable')
        IN  /\ \A q \in after : q[2].FirstSeen <= q[2].LastSeen
            /\ \A r \in before, q \in after :
                   r[1] = q[1] =>
                       /\ q[2].FirstSeen <= r[2].FirstSeen
                       /\ q[2].LastSeen >= r[2].LastSeen ]_vars

\* A backfill: date 2 was merged first, then date 1 lowered FirstSeen.
C2_Witness ==
    /\ snapshot[2].exists /\ snapshot[2] # stable
    /\ \E r \in RowsOf(stable) : r.FirstSeen = 1 /\ r.LastSeen = 2

C5_NoRowRemoved ==
    [][ LET before == Keyed(stable)
            after  == Keyed(stable')
        IN  \A r \in before : \E q \in after : q[1] = r[1] ]_vars

\* A row last seen on date 1 is kept by a merge of date 2 about another track.
C5_Witness ==
    /\ Len(stable.rows) = 2
    /\ stable.rows[1].LastSeen = 2 /\ stable.rows[1].FirstSeen = 2
    /\ stable.rows[2].LastSeen = 1

\* C6: merging the same per-run table with the same date a second time
\* leaves the stable file as the first merge wrote it.
C6_MergeIdempotent ==
    [][ \A t \in RunTables, d \in Dates :
            LET once == UpdateCumulative(stable, t, d)
            IN  (merges' = merges + 1 /\ ~once.raised
                   /\ stable' = CsvFile(once.rows)) =>
                    LET twice == UpdateCumulative(stable', t, d)
                    IN  twice.raised \/ twice.rows = stable'.rows ]_vars

\* C7: when the stable file exists and cannot be parsed, the merge raises
\* and writes neither the stable file nor a snapshot.
C7_UnreadableFileKept ==
    [][ (stable.exists /\ ~stable.parses /\ merges' = merges + 1) =>
            /\ outcome' = "raised"
            /\ stable' = stable
            /\ snapshot' = snapshot ]_vars

\* A merge met a damaged file whose rows all have an artist, and raised.
C7_Witness ==
    /\ stable.exists /\ ~stable.parses
    /\ merges = 2 /\ outcome = "raised"
    /\ \A r \in RowsOf(stable) : r.Artist # <<>> /\ r.Title # <<>>

\* C25: a merge writes nothing before its table is complete: a call that
\* raises, for an unreadable file or for a stored row it cannot take, leaves
\* the stable file and every snapshot as they were, and a call that changes
\* a file has not raised and has written the stable file and the snapshot of
\* its date with one and the same table.
C25_NoWriteBeforeEnd ==
    [][ merges' = merges + 1 =>
            /\ outcome' = "raised" => (stable' = stable /\ snapshot' = snapshot)
            /\ (stable' # stable \/ snapshot' # snapshot) =>
                   /\ outcome' = "ok"
                   /\ \E d \in Dates :
                          /\ snapshot'[d] = stable'
                          /\ \A e \in Dates \ {d} : snapshot'[e] = snapshot[e] ]_vars

\* A merge raised on a stable file that parses: a stored row without artist
\* made the index-map loop fail; the file it met is still there.
C25_Witness ==
    /\ outcome = "raised" /\ merges = 2
    /\ stable.exists /\ stable.parses
    /\ \E r \in RowsOf(stable) : r.Artist = <<>>

\* C28: a merge that finds the stable file absent or as an earlier merge
\* wrote it does not raise.
C28_OutputIsValidInput ==
    [][ (merges' = merges + 1 /\ stable.parses) => outcome' = "ok" ]_vars

\* C16: a merge that does not raise writes the snapshot of its run date,
\* and no merge changes a snapshot that exists.
C16_SnapshotImmutable ==
    [][ /\ (merges' = merges + 1 /\ outcome' = "ok") =>
               \E d \in Dates : snapshot'[d].exists /\ snapshot'[d] = stable'
        /\ \A d \in Dates : snapshot[d].exists => snapshot'[d] = snapshot[d] ]_vars

\* The key of an incoming row, and whether the row supplies a tempo, a key.
KeyOfIncoming(row) == NormalizeKey2(IdentityOf(row)[1], IdentityOf(row)[2])

HasTempo(row) == row.BPM \notin {"None", ""}

HasKey(row) == row.Key \notin {"None", ""}

\* The rows of a file with a given key.
RowsWithKey(file, k) == {r \in RowsOf(file) : KeyOfRow(r) = k}

\* C17: when a merge sees a key that already has a row, in the stable file
\* or appended earlier in the same run, and the row has no tempo while an
\* incoming row supplies one, the row has the first tempo supplied after
\* the merge; the same for the key field.
C17_EmptyTempoKeyFilled ==
    [][ \A t \in RunTables, d \in Dates :
            LET r == UpdateCumulative(stable, t, d)
            IN  (merges' = merges + 1 /\ ~r.raised /\ stable' = CsvFile(r.rows)) =>
                    \A k \in {KeyOfIncoming(t[i]) : i \in 1..Len(t)} :
                        LET mine   == SelectSeq(t, LAMBDA x : KeyOfIncoming(x) = k)
                            tempos == SelectSeq(mine, HasTempo)
                            keys   == SelectSeq(mine, HasKey)
                            old    == RowsWithKey(stable, k)
                            seen   == old # {} \/ Len(mine) >= 2
                            noBpm  == \A o \in old : o.BPM = ""
                            noKey  == \A o \in old : o.Key = ""
                        IN  \A n \in RowsWithKey(stable', k) :
                                /\ (seen /\ noBpm /\ tempos # <<>>) =>
                                       n.BPM = tempos[1].BPM
                                /\ (seen /\ noKey /\ keys # <<>>) =>
                                       n.Key = keys[1].Key ]_vars

\* The tags that the incoming rows of a key bring.
TagsOfIncoming(t, k) ==
    UNION {SplitStations(t[i].Stations) :
              i \in {j \in 1..Len(t) : KeyOfIncoming(t[j]) = k}}

\* C18: when a merge sees a key that has a row in the stable file, the
\* Stations of the row are afterwards the stored tags and the incoming ones
\* and no other, sorted and joined, FirstSeen is the earlier of the stored
\* date and the run date, LastSeen the later.
C18_UnionAndDates ==
    [][ \A t \in RunTables, d \in Dates :
            LET r == UpdateCumulative(stable, t, d)
            IN  (merges' = merges + 1 /\ ~r.raised /\ stable' = CsvFile(r.rows)) =>
                    \A k \in {KeyOfIncoming(t[i]) : i \in 1..Len(t)} :
                        \A o \in RowsWithKey(stable, k), n \in RowsWithKey(stable', k) :
                            /\ n.Stations =
                                   JoinSorted(TagsOfRow(o) \cup TagsOfIncoming(t, k))
                            /\ n.FirstSeen = (IF d < o.FirstSeen THEN d ELSE o.FirstSeen)
                            /\ n.LastSeen = (IF d > o.LastSeen THEN d ELSE o.LastSeen) ]_vars

\* Two merges one after the other, starting from a stable file, as the
\* daily runs and the loop of backfill_cumulative.py make them; a merge that
\* raises leaves the file to the next one as it was.
MergeTwice(file, t1, d1, t2, d2) ==
    LET r1   == UpdateCumulative(file, t1, d1)
        mid  == Written(file, r1)
        r2   == UpdateCumulative(mid, t2, d2)
    IN  [raised |-> r1.raised \/ r2.raised, file |-> Written(mid, r2)]

\* What a catalog says of sources and dates: for every key the stations
\* and the first and last date.
SeenOf(file) ==
    {[key   |-> KeyOfRow(r), tags |-> TagsOfRow(r),
      first |-> r.FirstSeen, last |-> r.LastSeen] : r \in RowsOf(file)}

\* C30: two merges that both complete give the same keys and, for every
\* key, the same stations and the same first and last date in either order,
\* from whatever catalog they start.
C30_MergeOrderIrrelevant ==
    \A t1 \in RunTables, t2 \in RunTables, d1 \in Dates, d2 \in Dates :
        LET ab == MergeTwice(stable, t1, d1, t2, d2)
            ba == MergeTwice(stable, t2, d2, t1, d1)
        IN  (stable.parses /\ ~ab.raised /\ ~ba.raised)
                => SeenOf(ab.file) = SeenOf(ba.file)

(***************************************************************************)
(* Properties of the resolver                                              *)
(***************************************************************************)

HasDuration(p) == library[p].duration # NoDur

DeltaOf(p) == Abs(library[p].duration[1] - query.row.duration[1])

\* C8: a row whose key is a key of the index gets a path stored under that
\* key and confidence 100; when the row has a duration, no path of the key
\* has a recorded duration closer to it than the chosen path.
C8_ExactKeyMatch ==
    (query.asked /\ PathsOfKey(library, query.row.key) # <<>>) =>
        LET paths == PathsOfKey(library, query.row.key)
            timed == {paths[i] : i \in 1..Len(paths)} \cap
                         {p \in 1..Len(library) : HasDuration(p)}
        IN  /\ \E i \in 1..Len(paths) : paths[i] = result.path
            /\ result.confidence = 100
            /\ (query.row.duration # NoDur /\ timed # {}) =>
                   /\ result.path \in timed
                   /\ \A p \in timed : DeltaOf(result.path) <= DeltaOf(p)

\* Two files under the key of the row, and the second is the closer one.
C8_Witness ==
    /\ query.asked /\ query.row.duration # NoDur
    /\ Len(PathsOfKey(library, query.row.key)) = 2
    /\ HasDuration(1) /\ HasDuration(2)
    /\ result.path = 2 /\ result.confidence = 100

\* C9: a result with a local path has a confidence of at least the
\* threshold, or it was accepted for a duration delta of at most 4 seconds
\* and has a confidence of at least the threshold less 2.
C9_ThresholdRespected ==
    (query.asked /\ result.path # NoPath) =>
        \/ result.confidence >= query.threshold
        \/ /\ query.row.duration # NoDur /\ result.chosen.delta <= 4
           /\ result.confidence >= query.threshold - 2

\* A candidate below the threshold, accepted at the floor for its duration.
C9_Witness ==
    /\ query.asked /\ result.path # NoPath
    /\ result.how = "rescue"
    /\ query.ranked[1].score < query.threshold - 2
    /\ result.confidence = query.threshold - 2

\* The chosen candidate scored below the threshold and the file chosen for
\* it is within 4 seconds of the row.
CloseBelowThreshold ==
    /\ query.asked /\ result.chosen.key # NoKey
    /\ result.chosen.score < query.threshold
    /\ query.row.duration # NoDur
    /\ result.chosen.path # NoPath /\ HasDuration(result.chosen.path)
    /\ DeltaOf(result.chosen.path) <= 4

\* C19: a chosen candidate that scored below the threshold, with a duration
\* within 4 seconds of the row, is accepted when its score is at least the
\* threshold less 8, with the confidence max(score, threshold - 2); when it
\* scored less than that, the row gets no path.
C19_DurationRescue ==
    CloseBelowThreshold =>
        IF result.chosen.score >= query.threshold - 8
        THEN /\ result.path = result.chosen.path
             /\ result.confidence =
                    IF result.chosen.score > query.threshold - 2
                    THEN result.chosen.score ELSE query.threshold - 2
        ELSE result.path = NoPath

\* C19 as stated: every such candidate is accepted, with the confidence
\* threshold - 2.
C19_RescueWheneverClose ==
    CloseBelowThreshold =>
        /\ result.path = result.chosen.path
        /\ result.confidence = query.threshold - 2

\* Threshold 85, two candidates, the chosen one scored 79 and is within 4
\* seconds: accepted at 83.
C19_Witness ==
    /\ CloseBelowThreshold /\ result.how = "rescue"
    /\ query.threshold = 85 /\ Len(query.ranked) = 2
    /\ result.chosen.score = 79 /\ result.confidence = 83
    /\ result.path = result.chosen.path

\* C20: when the row has a duration and some filtered candidate has a file
\* with a known duration, the chosen candidate is one of these with the
\* least duration difference, a difference of 0 included; else the chosen
\* candidate is one with the highest score.
C20_ClosestDurationChosen ==
    (query.asked /\ result.chosen.key # NoKey) =>
        LET cands     == Candidates(query.threshold, query.ranked)
            pathOf(i) == BestPathForKey(library, cands[i].key, query.row.duration)
            timed     == {i \in 1..Len(cands) :
                             /\ query.row.duration # NoDur
                             /\ pathOf(i) # NoPath /\ HasDuration(pathOf(i))}
        IN  IF timed # {}
            THEN \E i \in timed :
                     /\ cands[i].key = result.chosen.key
                     /\ \A j \in timed : DeltaOf(pathOf(i)) <= DeltaOf(pathOf(j))
            ELSE \E i \in 1..Len(cands) :
                     /\ cands[i].key = result.chosen.key
                     /\ \A j \in 1..Len(cands) : cands[i].score >= cands[j].score

\* C29: a row without an exact key hit, one of whose candidates scores at
\* least the threshold, is returned with a local path.
C29_AcceptableCandidateKept ==
    (/\ query.asked /\ result.how # "exact"
     /\ \E i \in 1..Len(Candidates(query.threshold, query.ranked)) :
            Candidates(query.threshold, query.ranked)[i].score >= query.threshold)
        => result.path # NoPath

(***************************************************************************)
(* Properties of the exporters                                             *)
(***************************************************************************)

\* The entries of a playlist file: the song lines of a .vdjfolder, the path
\* lines of an .m3u8.
EntriesOf(format, file) ==
    IF format = "vdjfolder"
    THEN SelectSeq(file.lines, LAMBDA l : PathOfLine(l) # <<>>)
    ELSE ParseM3uPaths(file)

\* The entries that the resolved items of a match list make.
NewEntries(format, matches) ==
    IF format = "vdjfolder"
    THEN LET ps == BuildSongPathsForVdj(matches)
         IN  [i \in 1..Len(ps) |-> SongLine(ps[i])]
    ELSE LET es == BuildM3uEntries(matches)
         IN  [i \in 1..Len(es) |-> es[i][2]]

\* C10: after an export in add mode the file holds its N former entries,
\* unchanged and in order, followed by those of the M new entries that are
\* not among the former ones, in match order: N + (M - K) entries in all.
\* This for the .vdjfolder and for the .m3u8.
C10_AddKeepsAndAppends ==
    [][ (exports' = exports + 1 /\ lastExport'.mode = "add") =>
            LET format == lastExport'.format
                before == IF format = "vdjfolder" THEN vdj[ListName] ELSE m3u[ListName]
                now    == IF format = "vdjfolder" THEN vdj'[ListName] ELSE m3u'[ListName]
                former == EntriesOf(format, before)
                new    == NewEntries(format, lastExport'.matches)
                fresh  == SelectSeq(new, LAMBDA e : e \notin RangeOf(former))
                dupes  == Len(new) - Len(fresh)
            IN  /\ EntriesOf(format, now) = former \o fresh
                /\ Len(EntriesOf(format, now)) =
                       Len(former) + (Len(new) - dupes) ]_vars

\* What a reader of XML takes an attribute text to mean: the four entities
\* that _escape_xml_attr writes, put back, "&amp;" last.
UnescapeXmlAttr(text) ==
    LET at(s, w) == [i \in 1..Len(s) |-> IF OccursAt(s, w, i) THEN Len(w) ELSE 0]
        quot == <<"&", "q", "u", "o", "t", ";">>
        lt   == <<"&", "l", "t", ";">>
        gt   == <<"&", "g", "t", ";">>
        amp  == <<"&", "a", "m", "p", ";">>
        s1 == SubAll(text, at(text, quot), <<"\"">>)
        s2 == SubAll(s1, at(s1, lt), <<"<">>)
        s3 == SubAll(s2, at(s2, gt), <<">">>)
    IN  SubAll(s3, at(s3, amp), <<"&">>)

\* The path values of the songs of a .vdjfolder, in file order.
PathValues(file) ==
    LET raw == ParseVdjfolderPaths(file)
    IN  [i \in 1..Len(raw) |-> UnescapeXmlAttr(raw[i])]

\* C24: after an export to a .vdjfolder in add mode, the songs that were in
\* the file have the path values they had, in the same order, and they are
\* followed by the new paths that were not among them and by no other:
\* this for paths with characters that the XML attribute escapes, too.
C24_VdjAddKeepsPathValues ==
    [][ (/\ exports' = exports + 1
         /\ lastExport'.mode = "add"
         /\ lastExport'.format = "vdjfolder") =>
            LET former == PathValues(vdj[ListName])
                new    == BuildSongPathsForVdj(lastExport'.matches)
                fresh  == SelectSeq(new, LAMBDA q : q \notin RangeOf(former))
            IN  PathValues(vdj'[ListName]) = former \o fresh ]_vars

\* What an export in replace mode writes for a match list.
ReplaceContent(format, matches) ==
    IF format = "vdjfolder"
    THEN WriteVdjfolderPaths(BuildSongPathsForVdj(matches))
    ELSE WriteM3uFromEntries(BuildM3uEntries(matches))

\* The files of a format after and before the step, and whether the step
\* left every playlist file but that of one name and format as it was.
OnlyWrites(format, name) ==
    /\ \A n \in FileNames \ {name} : vdj'[n] = vdj[n] /\ m3u'[n] = m3u[n]
    /\ IF format = "vdjfolder" THEN m3u' = m3u ELSE vdj' = vdj

FileAfter(format, name) == IF format = "vdjfolder" THEN vdj'[name] ELSE m3u'[name]

\* C13: an export in save_as_new mode whose new_name, stripped, is not
\* empty writes the file of that stripped name with what replace mode would
\* write and leaves every other file alone, the file of list_name too when
\* the names differ; with no new_name or a blank one it writes the file of
\* list_name, as replace mode does.
C13_SaveAsNewTarget ==
    [][ (exports' = exports + 1 /\ lastExport'.mode = "save_as_new") =>
            LET given  == Strip(lastExport'.newName)
                name   == IF given = <<>> THEN ListName ELSE given
                format == lastExport'.format
            IN  /\ OnlyWrites(format, name)
                /\ FileAfter(format, name) =
                       ReplaceContent(format, lastExport'.matches) ]_vars

\* C13 as stated: no export in save_as_new mode creates or modifies the
\* file of list_name.
C13_SaveAsNewKeepsList ==
    [][ (exports' = exports + 1 /\ lastExport'.mode = "save_as_new") =>
            vdj'[ListName] = vdj[ListName] /\ m3u'[ListName] = m3u[ListName] ]_vars

\* The list was exported, then saved under another name with other content:
\* both files exist and the file of the list is as the first export left it.
C13_Witness ==
    /\ exports = 2
    /\ lastExport.mode = "save_as_new" /\ lastExport.format = "vdjfolder"
    /\ lastExport.newName = <<"N", " ">> /\ lastExport.target = <<"N">>
    /\ vdj[<<"N">>].exists /\ vdj[ListName].exists
    /\ vdj[<<"N">>] # vdj[ListName]

(***************************************************************************)
(* Properties of the normalizer                                            *)
(***************************************************************************)

\* C11: normalize_text is idempotent: applied to its own result it returns
\* that result, and so normalize_key of an already normalized artist and
\* title is the key they were normalized to.
C11_NormalizeIdempotent ==
    norm.calls = 2 =>
        /\ norm.artist2 = norm.artist
        /\ norm.title2 = norm.title
        /\ norm.key2 = norm.key

\* Bracketed qualifiers that a tag appends to a title.
Qualifiers == {<<" ", "(", "l", "i", "v", "e", ")">>, <<"(", "l", "i", "v", "e", ")">>}

\* C21: a bracketed qualifier appended to the title does not change the
\* canonical key: the key of a file tagged with the qualified title is the
\* key of the row without it, so the row finds the file by exact key.
C21_QualifierKeepsKey ==
    \A t \in Titles, q \in Qualifiers :
        (norm.calls >= 1 /\ norm.rawTitle = t \o q)
            => norm.key = NormalizeKey(norm.rawArtist, t)

(***************************************************************************)
(* Properties of the run lock                                              *)
(***************************************************************************)

\* The sessions whose orchestrator process is running.
Running == {i \in Sessions : session[i] = "running"}

\* C12: under any interleaving of the calls of run_orchestrator and
\* run_orchestrator_dj, at most one orchestrator process started by them
\* runs at any time, and a process only runs while the lock file exists.
C12_OneRunAtATime ==
    /\ Cardinality(Running) <= 1
    /\ Running # {} => lock

\* C26: a lock file that exists is removed later on: no run leaves a lock
\* file for ever.
C26_LockEventuallyRemoved == lock ~> ~lock

(***************************************************************************)
(* Properties of the library scan                                          *)
(***************************************************************************)

\* The paths an index records: in tracks, in mtime, under a key of by_key.
PathsOfIndex(idx) ==
    TrackPaths(idx.tracks) \cup DOMAIN idx.mtime
        \cup UNION {RangeOf(idx.by_key[n].paths) : n \in 1..Len(idx.by_key)}

\* The entry of a path in tracks; no entry is the empty sequence.
EntryOf(idx, p) ==
    IF TrackAt(idx.tracks, p) = 0 THEN <<>> ELSE idx.tracks[TrackAt(idx.tracks, p)]

\* C14: the index that a scan returns records no path, in tracks, mtime or
\* by_key, whose file does not exist.
C14_NoDeletedPath ==
    [][ (scans' # scans /\ scanned' = "ok") => \A p \in PathsOfIndex(index') : disk[p].exists ]_vars

\* C15: a file whose modification time is the one recorded for its path is
\* not parsed by the scan, and its entry in tracks is after the scan what it
\* was before.
C15_UnchangedFileReused ==
    [][ (scans' # scans /\ scanned' = "ok") =>
            \A p \in Paths :
                (/\ disk[p].exists
                 /\ p \in DOMAIN index.mtime
                 /\ index.mtime[p] = disk[p].mtime) =>
                    /\ p \notin parsed'
                    /\ EntryOf(index', p) = EntryOf(index, p) ]_vars

\* A scan parsed one file and passed over the other, which was indexed by an
\* earlier scan and has not changed since.
C15_Witness ==
    /\ scanned = "ok"
    /\ Cardinality(parsed) = 1
    /\ Len(index.tracks) = 2
    /\ \A p \in Paths : disk[p].exists /\ index.mtime[p] = disk[p].mtime

\* The paths that a search of the index can return: those of tracks and
\* those under a key of by_key.
Searchable(idx) ==
    TrackPaths(idx.tracks)
        \cup UNION {RangeOf(idx.by_key[n].paths) : n \in 1..Len(idx.by_key)}

\* Neither the tags of the file nor the stem of its name give both an artist
\* and a title.
Insufficient(p, f) ==
    /\ f.artist = <<>> \/ f.title = <<>>
    /\ Len(SplitStem(p)) # 2

\* C22: a file that a scan parsed and found without artist or title, in its
\* tags and in its name, has its modification time recorded and is not in
\* tracks nor under a key of by_key after the scan, whatever an earlier scan
\* had indexed for its path.
C22_InsufficientNotSearchable ==
    [][ (scans' # scans /\ scanned' = "ok") =>
            \A p \in parsed' :
                Insufficient(p, disk[p]) =>
                    /\ p \in DOMAIN index'.mtime
                    /\ index'.mtime[p] = disk[p].mtime
                    /\ p \notin Searchable(index') ]_vars

\* C23: a file that cannot be read, parsed or reached never aborts the
\* scan: scan_library returns, and it has handed to _extract_tags every
\* file that exists and whose recorded modification time is not its own.
C23_ScanNeverAborts ==
    [][ scans' # scans =>
            /\ scanned' = "ok"
            /\ \A p \in Paths :
                   (disk[p].exists /\ ~Unchanged(index.mtime, p, disk[p]))
                       => p \in parsed' ]_vars

(***************************************************************************)
(* Properties of the playlist reader                                       *)
(***************************************************************************)

\* C27: no row that read_playlist_csv returns has an artist or a title that
\* is empty or white space only, whether the columns were found by their
\* header names or taken as the first two.
C27_NoEmptyArtistOrTitle ==
    read.asked =>
        \A i \in 1..Len(read.rows) :
            /\ Strip(read.rows[i].artist) # <<>>
            /\ Strip(read.rows[i].title) # <<>>

====
